---- MODULE Spec2Model ----
(***************************************************************************)
(* A model of goconf: the sectioned Conf store and its line parser         *)
(* (conf.go), the Item coercions of the sectioned revision (item code in   *)
(* unnamed/part_003) and the composite-key Item of the earlier revision    *)
(* (unnamed/part_000).                                                     *)
(*                                                                         *)
(* Text is modelled as a sequence of one-character strings, so that        *)
(* trimming, splitting and indexing are computed as the Go code computes   *)
(* them.  A file is one flat sequence of characters, newlines included.    *)
(***************************************************************************)
EXTENDS Naturals, Integers, Sequences, FiniteSets, TLC

(* ----------------------------- bounds ---------------------------------- *)
\* most lines of a generated file
MaxLines == 3
\* most lines of a file the lookup API is exercised on
MaxStoreLines == 3
\* Parse calls on one Conf are counted up to this number
MaxParse == 2
\* segments of an array value
MaxElems == 3
\* most lines of a file the getters are compared on
MaxGetLines == 3
\* most lines of a file Load is called with
MaxLoadLines == 3
\* most lines of a file the two older parsers are run on
MaxOldLines == 2

(* ------------------------- program constants --------------------------- *)
_KV_SEP == ":"
_NEWLINE == "\n"
_SPACE_CHARS == {" ", "\t", "\n"}
_GLOBAL == <<"_", "_", "g", "l", "o", "b", "a", "l", "_", "_">>
_DEFAULT_SEP == " "
_SECTION_LEFT == "["
_SECTION_RIGHT == "]"
_COMMENT_TAG == "#"
_ARRAY_TAG == "@"
_MAP_TAG == "$"

(* --------------------------- Go string library ------------------------- *)
SetMin(S) == CHOOSE m \in S : \A n \in S : m <= n
SetMax(S) == CHOOSE m \in S : \A n \in S : n <= m

\* s[lo:hi] with Go's 0-based half-open bounds
Slice(s, lo, hi) == SubSeq(s, lo + 1, hi)

\* strings.Trim(s, cutset)
Trim(s, cutset) ==
    LET keep == {i \in 1..Len(s) : s[i] \notin cutset}
    IN  IF keep = {} THEN <<>> ELSE SubSeq(s, SetMin(keep), SetMax(keep))

\* strings.SplitN(s, sep, 2) for a one-byte sep
SplitN2(s, sep) ==
    LET at == {i \in 1..Len(s) : s[i] = sep}
    IN  IF at = {} THEN <<s>>
        ELSE <<SubSeq(s, 1, SetMin(at) - 1), SubSeq(s, SetMin(at) + 1, Len(s))>>

\* strings.Split(s, sep) for a one-byte sep
RECURSIVE Split(_, _)
Split(s, sep) ==
    LET at == {i \in 1..Len(s) : s[i] = sep}
    IN  IF at = {} THEN <<s>>
        ELSE <<SubSeq(s, 1, SetMin(at) - 1)>>
                 \o Split(SubSeq(s, SetMin(at) + 1, Len(s)), sep)

\* strings.LastIndexAny(s, chars) for a one-byte chars; -1 when absent
LastIndexAny(s, c) ==
    LET at == {i \in 1..Len(s) : s[i] = c}
    IN  IF at = {} THEN -1 ELSE SetMax(at) - 1

\* bufio.Reader.ReadString(delim) on the bytes of buf after the first pos:
\* the bytes up to and including the first delim, or, when there is none,
\* the rest of the buffer together with io.EOF
ReadString(buf, pos, delim) ==
    LET at == {i \in (pos + 1)..Len(buf) : buf[i] = delim}
    IN  IF at = {}
        THEN [line |-> SubSeq(buf, pos + 1, Len(buf)), eof |-> TRUE, next |-> Len(buf)]
        ELSE [line |-> SubSeq(buf, pos + 1, SetMin(at)), eof |-> FALSE, next |-> SetMin(at)]

(* ------------------------------ errors --------------------------------- *)
\* an error value: its message and the text the message quotes
NoErr == [kind |-> "nil", text |-> <<>>]
Err(k, t) == [kind |-> k, text |-> t]

(* ------------------------------ strconv -------------------------------- *)
Digits == <<"0", "1", "2", "3", "4", "5", "6", "7", "8", "9">>
IsDigit(c) == \E d \in 1..10 : Digits[d] = c
DigitVal(c) == (CHOOSE d \in 1..10 : Digits[d] = c) - 1

RECURSIVE Decimal(_)
Decimal(ds) ==
    IF Len(ds) = 0 THEN 0
    ELSE 10 * Decimal(SubSeq(ds, 1, Len(ds) - 1)) + DigitVal(ds[Len(ds)])

\* strconv.ParseInt(s, 10, 64): an optional sign, then one or more decimal
\* digits and nothing else.  On a syntax error the value is 0.  (The texts of
\* the model are far too short to leave the 64-bit range.)
ParseInt(s) ==
    LET signed == Len(s) > 0 /\ s[1] \in {"+", "-"}
        ds     == IF signed THEN Tail(s) ELSE s
    IN  IF Len(ds) = 0 \/ \E i \in 1..Len(ds) : ~IsDigit(ds[i])
        THEN [err |-> Err("strconv.ParseInt: invalid syntax", s), val |-> 0]
        ELSE [err |-> NoErr,
              val |-> IF signed /\ s[1] = "-" THEN 0 - Decimal(ds) ELSE Decimal(ds)]

\* drop the zeros at the end of a decimal fraction
RECURSIVE StripZeros(_)
StripZeros(ds) ==
    IF Len(ds) > 0 /\ ds[Len(ds)] = "0" THEN StripZeros(SubSeq(ds, 1, Len(ds) - 1)) ELSE ds

\* strconv.ParseFloat(s, 64) on decimal texts without exponent: an optional
\* sign, digits, an optional point and digits, with a digit somewhere.  The
\* value is kept exactly, as num / 10^scale with no trailing zero in the
\* fraction.  (Exponents, hex floats, "inf" and "nan" need letters that no
\* text of the model has.)
ParseFloat(s) ==
    LET signed == Len(s) > 0 /\ s[1] \in {"+", "-"}
        body   == IF signed THEN Tail(s) ELSE s
        parts  == SplitN2(body, ".")
        ip     == parts[1]
        fp     == IF Len(parts) = 2 THEN StripZeros(parts[2]) ELSE <<>>
        rawfp  == IF Len(parts) = 2 THEN parts[2] ELSE <<>>
        bad    == \/ Len(ip) + Len(rawfp) = 0
                  \/ \E i \in 1..Len(ip) : ~IsDigit(ip[i])
                  \/ \E i \in 1..Len(rawfp) : ~IsDigit(rawfp[i])
        mag    == Decimal(ip \o fp)
    IN  IF bad
        THEN [err |-> Err("strconv.ParseFloat: invalid syntax", s),
              val |-> [num |-> 0, scale |-> 0]]
        ELSE [err |-> NoErr,
              val |-> [num |-> IF signed /\ s[1] = "-" THEN 0 - mag ELSE mag,
                       scale |-> Len(fp)]]

(* ------------------- Item of the sectioned revision -------------------- *)
\* Item{key, val}
Item(k, v) == [key |-> k, val |-> v]

ToInt(it) == ParseInt(it.val)

ToFloat(it) == ParseFloat(it.val)

Item_ToString(it) == it.val

\* faulty variant: each part kept is put in front of the ones found before it
ToStringArray_Prepend(it, sep) ==
    LET parts == Split(it.val, sep)
        keep(p) == IF p # <<>> THEN <<Trim(p, _SPACE_CHARS)>> ELSE <<>>
        F[n \in 0..Len(parts)] == IF n = 0 THEN <<>> ELSE keep(parts[n]) \o F[n - 1]
    IN  F[Len(parts)]

\* the elements of item.val between occurrences of the process-wide
\* separator: the parts that are not empty, each trimmed
ToStringArray(it, sep) ==
    LET parts == Split(it.val, sep)
        keep(p) == IF p # <<>> THEN <<Trim(p, _SPACE_CHARS)>> ELSE <<>>
        F[n \in 0..Len(parts)] == IF n = 0 THEN <<>> ELSE F[n - 1] \o keep(parts[n])
    IN  F[Len(parts)]

\* the first element that fails to parse ends the conversion with its error
ToIntArray(it, sep) ==
    LET eleStr == ToStringArray(it, sep)
        conv   == [i \in 1..Len(eleStr) |-> ParseInt(Trim(eleStr[i], _SPACE_CHARS))]
        bad    == {i \in 1..Len(eleStr) : conv[i].err # NoErr}
    IN  IF bad # {}
        THEN [err |-> conv[SetMin(bad)].err, val |-> <<>>]
        ELSE [err |-> NoErr, val |-> [i \in 1..Len(eleStr) |-> conv[i].val]]

ToFloatArray(it, sep) ==
    LET eleStr == ToStringArray(it, sep)
        conv   == [i \in 1..Len(eleStr) |-> ParseFloat(Trim(eleStr[i], _SPACE_CHARS))]
        bad    == {i \in 1..Len(eleStr) : conv[i].err # NoErr}
    IN  IF bad # {}
        THEN [err |-> conv[SetMin(bad)].err, val |-> <<>>]
        ELSE [err |-> NoErr, val |-> [i \in 1..Len(eleStr) |-> conv[i].val]]

(* ------------------------------ Conf ----------------------------------- *)
VARIABLES
    input,      \* the bytes of the config file
    rd,         \* bytes the buffered reader has handed out
    sections,   \* conf.sections: name -> section (key -> Item)
    cur,        \* conf.cur, as the name under which that section is registered
    pc,         \* "idle" | "parsing": whether a Parse call is running
    perr,       \* result of the last Parse call
    log,        \* history: what each line read by the running Parse did
    nparse,     \* history: Parse calls started, counted up to MaxParse
    ret,        \* the last call made on the Conf and, for a lookup or cursor
                \* call, what it returned
    sel,        \* history: the section the last cursor call put the cursor on,
                \* when no Parse call has come after it
    elementSep, \* the package variable elementSep
    item,       \* a free-standing Item
    out,        \* result of the last coercion of item, and the element
                \* separator in force when it was made
    loader,     \* a Load call: the config object and how far Load has got
    conf0       \* two Confs of the revisions without sections, one of each
                \* parser, reading the same bytes

confVars == <<input, rd, sections, cur, pc, perr, log, nparse, ret, sel, elementSep>>
itemVars == <<item, out>>
vars == <<input, rd, sections, cur, pc, perr, log, nparse, ret, sel, elementSep,
          item, out, loader, conf0>>

newSection == << >>

isSection(line) ==
    line[1] = _SECTION_LEFT /\ line[Len(line)] = _SECTION_RIGHT

\* what a pass of the loop of Conf.parse leaves when it does nothing
Pass(secs, c, next, lineStr) ==
    [sections |-> secs, cur |-> c, next |-> next, stop |-> FALSE, err |-> NoErr,
     line |-> lineStr, what |-> "skip", sec |-> c, key |-> <<>>, val |-> <<>>]

\* faulty variant: a header naming a registered section replaces that section by an
\* empty one and the parser goes on
parseSection_Overwrite(same, lineStr) ==
    LET sectionName == Trim(Slice(lineStr, 1, Len(lineStr) - 1), _SPACE_CHARS)
    IN  [same EXCEPT !.what = "section", !.sec = sectionName, !.cur = sectionName,
                     !.sections = (sectionName :> newSection) @@ same.sections]

\* faulty variant: a new section is registered but the cursor stays where it was
parseSection_KeepCursor(same, lineStr) ==
    LET sectionName == Trim(Slice(lineStr, 1, Len(lineStr) - 1), _SPACE_CHARS)
    IN  IF sectionName \in DOMAIN same.sections
        THEN [same EXCEPT !.stop = TRUE, !.what = "error", !.sec = sectionName,
                          !.err = Err("section already exist", sectionName)]
        ELSE [same EXCEPT !.what = "section", !.sec = sectionName,
                          !.sections = (sectionName :> newSection) @@ same.sections]

\* the section-header branch: a registered name is an error, a new name gets
\* a new section, which becomes the current one
parseSection(same, lineStr) ==
    LET sectionName == Trim(Slice(lineStr, 1, Len(lineStr) - 1), _SPACE_CHARS)
    IN  IF sectionName \in DOMAIN same.sections
        THEN [same EXCEPT !.stop = TRUE, !.what = "error", !.sec = sectionName,
                          !.err = Err("section already exist", sectionName)]
        ELSE [same EXCEPT !.what = "section", !.sec = sectionName,
                          !.cur = sectionName,
                          !.sections = (sectionName :> newSection) @@ same.sections]

\* faulty variant: the value is not looked at: an empty one is stored like any other
parseKeyValue_KeepEmpty(same, lineStr) ==
    LET parts == SplitN2(lineStr, _KV_SEP)
    IN  IF Len(parts) # 2
        THEN [same EXCEPT !.stop = TRUE, !.what = "error",
                          !.err = Err("need ':' in a line", lineStr)]
        ELSE LET key == Trim(parts[1], _SPACE_CHARS)
                 val == Trim(parts[2], _SPACE_CHARS)
             IN  [same EXCEPT !.what = "kv", !.key = key, !.val = val,
                     !.sections = [same.sections EXCEPT ![same.cur] =
                                     (key :> Item(key, val)) @@ same.sections[same.cur]]]

\* faulty variant: a line without ':' is passed over like a comment
parseKeyValue_SkipNoColon(same, lineStr) ==
    LET parts == SplitN2(lineStr, _KV_SEP)
    IN  IF Len(parts) # 2
        THEN same
        ELSE LET key == Trim(parts[1], _SPACE_CHARS)
                 val == Trim(parts[2], _SPACE_CHARS)
             IN  IF Len(val) = 0
                 THEN [same EXCEPT !.stop = TRUE, !.what = "error", !.key = key,
                                   !.err = Err("an empty value", <<>>)]
                 ELSE [same EXCEPT !.what = "kv", !.key = key, !.val = val,
                          !.sections = [same.sections EXCEPT ![same.cur] =
                                          (key :> Item(key, val)) @@ same.sections[same.cur]]]

\* faulty variant: a key the current section already holds keeps its first item
parseKeyValue_KeepFirst(same, lineStr) ==
    LET parts == SplitN2(lineStr, _KV_SEP)
    IN  IF Len(parts) # 2
        THEN [same EXCEPT !.stop = TRUE, !.what = "error",
                          !.err = Err("need ':' in a line", lineStr)]
        ELSE LET key == Trim(parts[1], _SPACE_CHARS)
                 val == Trim(parts[2], _SPACE_CHARS)
             IN  IF Len(val) = 0
                 THEN [same EXCEPT !.stop = TRUE, !.what = "error", !.key = key,
                                   !.err = Err("an empty value", <<>>)]
                 ELSE [same EXCEPT !.what = "kv", !.key = key, !.val = val,
                          !.sections = [same.sections EXCEPT ![same.cur] =
                                          same.sections[same.cur] @@ (key :> Item(key, val))]]

\* the 'Key : Value' branch: the line is split at its first ':', both parts
\* are trimmed and the item is put in the current section under the key
parseKeyValue(same, lineStr) ==
    LET parts == SplitN2(lineStr, _KV_SEP)
    IN  IF Len(parts) # 2
        THEN [same EXCEPT !.stop = TRUE, !.what = "error",
                          !.err = Err("need ':' in a line", lineStr)]
        ELSE LET key == Trim(parts[1], _SPACE_CHARS)
                 val == Trim(parts[2], _SPACE_CHARS)
             IN  IF Len(val) = 0
                 THEN [same EXCEPT !.stop = TRUE, !.what = "error", !.key = key,
                                   !.err = Err("an empty value", <<>>)]
                 ELSE [same EXCEPT !.what = "kv", !.key = key, !.val = val,
                          !.sections = [same.sections EXCEPT ![same.cur] =
                                          (key :> Item(key, val)) @@ same.sections[same.cur]]]

\* One pass of the loop of Conf.parse over the line the reader returns.
\* The result names what the pass did; "stop" ends the loop.
parseLine(secs, c, buf, pos) ==
    LET r       == ReadString(buf, pos, _NEWLINE)
        lineStr == Trim(r.line, _SPACE_CHARS)
        same    == Pass(secs, c, r.next, lineStr)
    IN  IF Len(r.line) = 0 /\ r.eof
        THEN [same EXCEPT !.stop = TRUE, !.what = "eof"]
        ELSE IF Len(lineStr) = 0
        THEN [same EXCEPT !.what = "blank"]
        ELSE IF lineStr[1] = _COMMENT_TAG
        THEN [same EXCEPT !.what = "comment"]
        ELSE IF isSection(lineStr)
        THEN parseSection(same, lineStr)
        ELSE parseKeyValue(same, lineStr)

(* ------------------------------ files ---------------------------------- *)
RECURSIVE JoinLines(_)
JoinLines(ls) ==
    IF Len(ls) = 0 THEN <<>>
    ELSE IF Len(ls) = 1 THEN ls[1]
    ELSE ls[1] \o <<_NEWLINE>> \o JoinLines(Tail(ls))

\* the files of at most n lines drawn from pool, the last line unterminated
Files(pool, n) == {JoinLines(ls) : ls \in UNION {[1..m -> pool] : m \in 0..n}}

\* the same files with a newline after the last line
Terminated(files) == {f \o <<_NEWLINE>> : f \in files}

\* lines of every class the parser distinguishes
ParseLines ==
    { <<" ">>,
      <<"#", "a", ":", "b">>,
      <<"a", ":", "b">>,
      <<" ", "a", " ", ":", " ", "c", ":", "d", "\t">>,
      <<"a", ":", " ">>,
      <<"a", "b">>,
      <<"[", "S", "]">>,
      <<"[", " ", "S", " ", "]">>,
      <<"[", "@", "k", "@", ",", "]", ":", "1", ",", "2">>,
      <<"[", "@", "k", "]", ":", "1", " ", "2">>,
      <<"[", "@", "k", "]", ":", "[", "a", "]">> }

\* lines for the lookup API: two sections and keys shared between them
StoreLines ==
    { <<"a", ":", "1">>,
      <<"c", ":", "x">>,
      <<"[", "S", "]">>,
      <<"a", ":", "2", " ", "3">>,
      <<"[", "T", "]">> }

\* the state New leaves, for a file with the given bytes
InitConf(files) ==
    /\ input \in files
    /\ rd = 0
    /\ sections = (_GLOBAL :> newSection)
    /\ cur = _GLOBAL
    /\ pc = "idle"
    /\ perr = NoErr
    /\ log = <<>>
    /\ nparse = 0
    /\ ret = [op |-> "none", arg |-> <<>>, err |-> NoErr, val |-> <<>>]
    /\ sel = [known |-> FALSE, name |-> <<>>]
    /\ elementSep = _DEFAULT_SEP

\* no Load call is made
NoLoad == loader = [st |-> "none"]

\* no Conf of a revision without sections is made
NoOldConf == conf0 = [st |-> "none"]

NoItem ==
    /\ item = [rawKey |-> <<>>, val |-> <<>>]
    /\ NoLoad
    /\ NoOldConf
    /\ out = [op |-> "none", st |-> "ok", err |-> NoErr, val |-> <<>>, sep |-> _DEFAULT_SEP]

(* ------------------------------ Parse ---------------------------------- *)
\* Conf.Parse up to the loop: the file is opened and a reader put on it
ParseOpen ==
    /\ pc = "idle"
    /\ pc' = "parsing"
    /\ rd' = 0
    /\ log' = <<>>
    /\ nparse' = IF nparse < MaxParse THEN nparse + 1 ELSE nparse
    /\ sel' = [known |-> FALSE, name |-> <<>>]
    /\ ret' = [op |-> "Parse", arg |-> <<>>, err |-> NoErr, val |-> <<>>]
    /\ UNCHANGED <<input, sections, cur, perr, elementSep, item, out, loader, conf0>>

Entry(p) == [what |-> p.what, line |-> p.line, sec |-> p.sec, into |-> cur,
             key |-> p.key, val |-> p.val]

\* a pass of the loop that goes round again
ParseLine ==
    /\ pc = "parsing"
    /\ LET p == parseLine(sections, cur, input, rd)
       IN  /\ ~p.stop
           /\ sections' = p.sections
           /\ cur' = p.cur
           /\ rd' = p.next
           /\ log' = Append(log, Entry(p))
    /\ UNCHANGED <<input, pc, perr, nparse, ret, sel, elementSep, item, out, loader, conf0>>

\* faulty variant: the failing pass empties the Conf before Parse returns
ParseFail_Rollback ==
    /\ pc = "parsing"
    /\ LET p == parseLine(sections, cur, input, rd)
       IN  /\ p.stop
           /\ p.err # NoErr
           /\ perr' = p.err
           /\ rd' = p.next
           /\ log' = Append(log, Entry(p))
    /\ sections' = (_GLOBAL :> newSection)
    /\ cur' = _GLOBAL
    /\ pc' = "idle"
    /\ UNCHANGED <<input, nparse, ret, sel, elementSep, item, out, loader, conf0>>

\* a pass that returns an error: Parse returns it at once
ParseFail ==
    /\ pc = "parsing"
    /\ LET p == parseLine(sections, cur, input, rd)
       IN  /\ p.stop
           /\ p.err # NoErr
           /\ perr' = p.err
           /\ rd' = p.next
           /\ log' = Append(log, Entry(p))
    /\ pc' = "idle"
    /\ UNCHANGED <<input, sections, cur, nparse, ret, sel, elementSep, item, out, loader, conf0>>

\* the pass that meets the end of the file: parse returns nil and Parse puts
\* the cursor on the global section
ParseDone ==
    /\ pc = "parsing"
    /\ LET p == parseLine(sections, cur, input, rd)
       IN  /\ p.stop
           /\ p.err = NoErr
           /\ rd' = p.next
    /\ cur' = _GLOBAL
    /\ perr' = NoErr
    /\ pc' = "idle"
    /\ UNCHANGED <<input, sections, log, nparse, ret, sel, elementSep, item, out, loader, conf0>>

NextParse == ParseOpen \/ ParseLine \/ ParseFail \/ ParseDone

ParseFiles == Files(ParseLines, MaxLines) \cup Terminated(Files(ParseLines, MaxLines))

InitParse == InitConf(ParseFiles) /\ NoItem

SpecParse == InitParse /\ [][NextParse]_vars

(* --------------------------- the lookup API ---------------------------- *)
GetItem(secs, c, key) ==
    IF key \in DOMAIN secs[c]
    THEN [err |-> NoErr, val |-> secs[c][key]]
    ELSE [err |-> Err("non-exist item", key), val |-> Item(<<>>, <<>>)]

\* faulty variant: the key is looked up in the global section
HasItem_Global(secs, c, key) == key \in DOMAIN secs[_GLOBAL]

HasItem(secs, c, key) == key \in DOMAIN secs[c]

HasSection(secs, name) == name \in DOMAIN secs

GetInt(secs, c, key) ==
    LET g == GetItem(secs, c, key)
    IN  IF g.err # NoErr THEN [err |-> g.err, val |-> -1] ELSE ToInt(g.val)

GetString(secs, c, key) ==
    LET g == GetItem(secs, c, key)
    IN  IF g.err # NoErr THEN [err |-> g.err, val |-> <<>>]
        ELSE [err |-> NoErr, val |-> g.val.val]

GetIntArray(secs, c, key, sep) ==
    LET g == GetItem(secs, c, key)
    IN  IF g.err # NoErr THEN [err |-> g.err, val |-> <<>>] ELSE ToIntArray(g.val, sep)

GetStringArray(secs, c, key, sep) ==
    LET g == GetItem(secs, c, key)
    IN  IF g.err # NoErr THEN [err |-> g.err, val |-> <<>>]
        ELSE [err |-> NoErr, val |-> ToStringArray(g.val, sep)]

\* the keys and section names the calls are made with
KeyArgs == { <<"a">>, <<"c">> }
NameArgs == { <<"S">>, <<"T">>, _GLOBAL }

Called(op, arg, r) ==
    /\ pc = "idle"
    /\ ret' = [op |-> op, arg |-> arg, err |-> r.err, val |-> r.val]

\* faulty variant: a lookup leaves the cursor on the global section
Reads_ResetCursor ==
    /\ cur' = _GLOBAL
    /\ UNCHANGED <<input, rd, sections, pc, perr, log, nparse, sel, elementSep,
                   item, out, loader, conf0>>

Reads == UNCHANGED <<input, rd, sections, cur, pc, perr, log, nparse, sel, elementSep,
                     item, out, loader, conf0>>

\* faulty variant: an unregistered name puts the cursor back on the global section
Section_ResetOnError ==
    \E name \in NameArgs :
        /\ IF name \in DOMAIN sections
           THEN /\ cur' = name
                /\ sel' = [known |-> TRUE, name |-> name]
                /\ Called("Section", name, [err |-> NoErr, val |-> <<>>])
           ELSE /\ cur' = _GLOBAL
                /\ UNCHANGED sel
                /\ Called("Section", name, [err |-> Err("no section", name), val |-> <<>>])
        /\ UNCHANGED <<input, rd, sections, pc, perr, log, nparse, elementSep,
                       item, out, loader, conf0>>

\* faulty variant: the cursor is put on the name given, registered or not
Section_Unchecked ==
    \E name \in NameArgs :
        /\ cur' = name
        /\ sel' = [known |-> TRUE, name |-> name]
        /\ Called("Section", name, [err |-> NoErr, val |-> <<>>])
        /\ UNCHANGED <<input, rd, sections, pc, perr, log, nparse, elementSep,
                       item, out, loader, conf0>>

Section ==
    \E name \in NameArgs :
        /\ IF name \in DOMAIN sections
           THEN /\ cur' = name
                /\ sel' = [known |-> TRUE, name |-> name]
                /\ Called("Section", name, [err |-> NoErr, val |-> <<>>])
           ELSE /\ UNCHANGED <<cur, sel>>
                /\ Called("Section", name, [err |-> Err("no section", name), val |-> <<>>])
        /\ UNCHANGED <<input, rd, sections, pc, perr, log, nparse, elementSep,
                       item, out, loader, conf0>>

SetGlobalSection ==
    /\ cur' = _GLOBAL
    /\ sel' = [known |-> TRUE, name |-> _GLOBAL]
    /\ Called("SetGlobalSection", <<>>, [err |-> NoErr, val |-> <<>>])
    /\ UNCHANGED <<input, rd, sections, pc, perr, log, nparse, elementSep,
                   item, out, loader, conf0>>

CallHasSection ==
    \E name \in NameArgs :
        /\ Called("HasSection", name, [err |-> NoErr, val |-> HasSection(sections, name)])
        /\ Reads

CallHasItem ==
    \E key \in KeyArgs :
        /\ Called("HasItem", key, [err |-> NoErr, val |-> HasItem(sections, cur, key)])
        /\ Reads

CallGetItem ==
    \E key \in KeyArgs : Called("GetItem", key, GetItem(sections, cur, key)) /\ Reads

CallGetInt ==
    \E key \in KeyArgs : Called("GetInt", key, GetInt(sections, cur, key)) /\ Reads

CallGetString ==
    \E key \in KeyArgs : Called("GetString", key, GetString(sections, cur, key)) /\ Reads

CallGetIntArray ==
    \E key \in KeyArgs :
        Called("GetIntArray", key, GetIntArray(sections, cur, key, elementSep)) /\ Reads

\* faulty variant: the value is split on the default separator whatever
\* SetElementSep was last called with
CallGetStringArray_DefaultSep ==
    \E key \in KeyArgs :
        Called("GetStringArray", key, GetStringArray(sections, cur, key, _DEFAULT_SEP)) /\ Reads

CallGetStringArray ==
    \E key \in KeyArgs :
        Called("GetStringArray", key, GetStringArray(sections, cur, key, elementSep)) /\ Reads

StoreFiles == Files(StoreLines, MaxStoreLines)

Init == InitConf(StoreFiles) /\ NoItem

Next ==
    \/ ParseOpen \/ ParseLine \/ ParseFail \/ ParseDone
    \/ Section \/ SetGlobalSection \/ CallHasSection
    \/ CallHasItem \/ CallGetItem \/ CallGetInt \/ CallGetString
    \/ CallGetIntArray \/ CallGetStringArray

Spec == Init /\ [][Next]_vars

(* ------------------- every getter, and SetElementSep ------------------- *)
GetFloat(secs, c, key) ==
    LET g == GetItem(secs, c, key)
    IN  IF g.err # NoErr THEN [err |-> g.err, val |-> [num |-> -1, scale |-> 0]]
        ELSE ToFloat(g.val)

GetFloatArray(secs, c, key, sep) ==
    LET g == GetItem(secs, c, key)
    IN  IF g.err # NoErr THEN [err |-> g.err, val |-> <<>>] ELSE ToFloatArray(g.val, sep)

\* the orders a range over a map can visit its keys in
Orders(S) == {f \in [1..Cardinality(S) -> S] : \A i, j \in DOMAIN f : f[i] = f[j] => i = j}

\* Conf.Items: the items of the current section, in the order the range over
\* the map happens to visit them
Items(secs, c, order) == [i \in DOMAIN order |-> secs[c][order[i]]]

CallGetFloat ==
    \E key \in KeyArgs : Called("GetFloat", key, GetFloat(sections, cur, key)) /\ Reads

CallGetFloatArray ==
    \E key \in KeyArgs :
        Called("GetFloatArray", key, GetFloatArray(sections, cur, key, elementSep)) /\ Reads

\* faulty variant: the items of the global section, wherever the cursor is
CallItems_Global ==
    \E order \in Orders(DOMAIN sections[_GLOBAL]) :
        Called("Items", <<>>, [err |-> NoErr, val |-> Items(sections, _GLOBAL, order)]) /\ Reads

CallItems ==
    \E order \in Orders(DOMAIN sections[cur]) :
        Called("Items", <<>>, [err |-> NoErr, val |-> Items(sections, cur, order)]) /\ Reads

\* the bytes SetElementSep is called with
ElemSeps == {" ", ","}

\* SetElementSep: the separator of every array conversion made afterwards
SetElementSep ==
    \E sep \in ElemSeps :
        /\ pc = "idle"
        /\ elementSep' = sep
        /\ ret' = [op |-> "SetElementSep", arg |-> <<sep>>, err |-> NoErr, val |-> <<>>]
        /\ UNCHANGED <<input, rd, sections, cur, pc, perr, log, nparse, sel,
                       item, out, loader, conf0>>

\* lines whose values the separator in force splits differently
GetLines ==
    { <<"a", ":", "1", " ", "2">>,
      <<"a", ":", "1", ",", "2">>,
      <<"c", ":", "1", ".", "5">>,
      <<"a", ":", "x">>,
      <<"[", "S", "]">> }

GetFiles == Files(GetLines, MaxGetLines)

InitGet == InitConf(GetFiles) /\ NoItem

NextGet ==
    \/ ParseOpen \/ ParseLine \/ ParseFail \/ ParseDone
    \/ Section \/ SetGlobalSection \/ CallHasSection
    \/ CallHasItem \/ CallGetItem \/ CallGetInt \/ CallGetString
    \/ CallGetIntArray \/ CallGetStringArray
    \/ CallGetFloat \/ CallGetFloatArray \/ CallItems \/ SetElementSep

SpecGet == InitGet /\ [][NextGet]_vars

(* ------------------ Item of the composite-key revision ----------------- *)
\* the outcome of a call: a result, an error value, or a run-time panic
Ok(v) == [st |-> "ok", err |-> NoErr, val |-> v]
Fail(e) == [st |-> "error", err |-> e, val |-> <<>>]
Panic(msg) == [st |-> "panic", err |-> Err(msg, <<>>), val |-> <<>>]

\* Item.ToStringArray: the key must be [@name] or [@name@c]; the value is
\* split on ' ' or on c, and the parts are returned as they are.  Indexing
\* an empty rawKey panics before the length is looked at; || stops at its
\* first true operand, so rawKey[1] is read only when rawKey has two bytes.
ToStringArray0(it) ==
    LET rawKey == it.rawKey
        keyLen == Len(rawKey)
        sepIdx == LastIndexAny(rawKey, _ARRAY_TAG)
    IN  IF keyLen = 0
        THEN Panic("index out of range")
        ELSE IF \/ rawKey[1] # _SECTION_LEFT
                \/ rawKey[keyLen] # _SECTION_RIGHT
                \/ rawKey[2] # _ARRAY_TAG
                \/ keyLen < 4
        THEN Fail(Err("item is not a Array, key:", rawKey))
        ELSE IF sepIdx = -1
        THEN Fail(Err("not found Array Tag: @", <<>>))
        ELSE IF sepIdx = 1
        THEN Ok(Split(it.val, _DEFAULT_SEP))
        ELSE IF sepIdx # keyLen - 3
        THEN Fail(Err("Array Sep can only set to one char", <<>>))
        ELSE Ok(Split(it.val, rawKey[sepIdx + 2]))

ToIntArray0(it) ==
    LET r      == ToStringArray0(it)
        eleStr == r.val
        conv   == [i \in 1..Len(eleStr) |-> ParseInt(Trim(eleStr[i], _SPACE_CHARS))]
        bad    == {i \in 1..Len(eleStr) : conv[i].err # NoErr}
    IN  IF r.st # "ok" THEN r
        ELSE IF bad # {} THEN Fail(conv[SetMin(bad)].err)
        ELSE Ok([i \in 1..Len(eleStr) |-> conv[i].val])

ToFloatArray0(it) ==
    LET r      == ToStringArray0(it)
        eleStr == r.val
        conv   == [i \in 1..Len(eleStr) |-> ParseFloat(Trim(eleStr[i], _SPACE_CHARS))]
        bad    == {i \in 1..Len(eleStr) : conv[i].err # NoErr}
    IN  IF r.st # "ok" THEN r
        ELSE IF bad # {} THEN Fail(conv[SetMin(bad)].err)
        ELSE Ok([i \in 1..Len(eleStr) |-> conv[i].val])

ToInt0(it) ==
    LET r == ParseInt(it.val) IN [st |-> IF r.err = NoErr THEN "ok" ELSE "error",
                                  err |-> r.err, val |-> r.val]

ToFloat0(it) ==
    LET r == ParseFloat(it.val) IN [st |-> IF r.err = NoErr THEN "ok" ELSE "error",
                                    err |-> r.err, val |-> r.val]

ToString0(it) == Ok(it.val)

\* the name a composite key is stored under
parseKey(key) ==
    IF Len(key) < 4 THEN key
    ELSE IF \/ key[1] # _SECTION_LEFT
            \/ key[Len(key)] # _SECTION_RIGHT
            \/ (key[2] # _ARRAY_TAG /\ key[2] # _MAP_TAG)
    THEN key
    ELSE IF Len(key) # 4 /\ key[Len(key) - 2] \in {_ARRAY_TAG, _MAP_TAG}
    THEN Slice(key, 2, Len(key) - 3)
    ELSE Slice(key, 2, Len(key) - 1)

\* the bytes tried as element separator
SepBytes == {" ", ",", ";", ":", "\t", "]", "@"}

\* the elements 1, 2 and 3 with c between them
Joined(c) == <<"1", c, "2", c, "3">>

ArrayKey(c) == <<"[", "@", "K", "@", c, "]">>

RawKeys ==
    { <<>>, <<"a">>, <<"[">>, <<"]">>, <<"@">>, <<"a", "b">>, <<"[", "]">>,
      <<"[", "@">>, <<"[", "@", "]">>, <<"I", "n", "t", "A">>, <<"[", "a", "b", "]">>,
      <<"[", "@", "a", "b">>, <<"@", "a", "b", "]">>,
      <<"[", "@", "K", "]">>, <<"[", "@", "K", "@", "]">>,
      <<"[", "@", "K", "@", "a", "b", "]">>,
      <<"[", "@", "a", "@", "b", "@", ",", "]">> }
    \cup {ArrayKey(c) : c \in SepBytes}

Vals ==
    { <<>>, <<"a", "b", "c">>, <<"1", "2">>, <<"-", "7">>, <<"1", ".", "5", "0">>,
      <<"1", ",", " ", "2">> }
    \cup {Joined(c) : c \in SepBytes}

InitItem ==
    /\ item \in [rawKey : RawKeys, val : Vals]
    /\ out = [op |-> "none", st |-> "ok", err |-> NoErr, val |-> <<>>, sep |-> _DEFAULT_SEP]
    /\ InitConf({<<>>})
    /\ NoLoad
    /\ NoOldConf

Coerced(op, r) ==
    /\ out' = [op |-> op, st |-> r.st, err |-> r.err, val |-> r.val, sep |-> elementSep]
    /\ UNCHANGED <<item, input, rd, sections, cur, pc, perr, log, nparse, ret, sel,
                   elementSep, loader, conf0>>

CallToStringArray0 == Coerced("ToStringArray", ToStringArray0(item))
CallToIntArray0 == Coerced("ToIntArray", ToIntArray0(item))
CallToFloatArray0 == Coerced("ToFloatArray", ToFloatArray0(item))
CallToInt0 == Coerced("ToInt", ToInt0(item))
CallToFloat0 == Coerced("ToFloat", ToFloat0(item))
CallToString0 == Coerced("ToString", ToString0(item))

NextItem ==
    \/ CallToStringArray0 \/ CallToIntArray0 \/ CallToFloatArray0
    \/ CallToInt0 \/ CallToFloat0 \/ CallToString0

SpecItem == InitItem /\ [][NextItem]_vars

(* ------------- coercions of the Item of the sectioned revision --------- *)
\* the segments with sep between them
RECURSIVE JoinSep(_, _)
JoinSep(parts, sep) ==
    IF Len(parts) = 0 THEN <<>>
    ELSE IF Len(parts) = 1 THEN parts[1]
    ELSE parts[1] \o <<sep>> \o JoinSep(Tail(parts), sep)

\* segments an array value is made of: numbers, a word, nothing, blanks
ElemSegs ==
    { <<>>, <<"1">>, <<"2", "2">>, <<"-", "3">>, <<"x">>, <<" ">>, <<"\t", "4">> }

ElemVals ==
    {JoinSep(segs, c) : segs \in UNION {[1..n -> ElemSegs] : n \in 1..MaxElems},
                        c \in ElemSeps}

ElemKeys == { <<"k">>, <<"[", "@", "k", "]">> }

InitElems ==
    /\ item \in {Item(k, v) : k \in ElemKeys, v \in ElemVals}
    /\ out = [op |-> "none", st |-> "ok", err |-> NoErr, val |-> <<>>, sep |-> _DEFAULT_SEP]
    /\ InitConf({<<>>})
    /\ NoLoad
    /\ NoOldConf

Outcome(r) == [st |-> IF r.err = NoErr THEN "ok" ELSE "error", err |-> r.err, val |-> r.val]

CallToStringArray ==
    Coerced("ToStringArray", Ok(ToStringArray(item, elementSep)))
CallToIntArray == Coerced("ToIntArray", Outcome(ToIntArray(item, elementSep)))
CallToFloatArray == Coerced("ToFloatArray", Outcome(ToFloatArray(item, elementSep)))
CallToInt == Coerced("ToInt", Outcome(ToInt(item)))
CallToFloat == Coerced("ToFloat", Outcome(ToFloat(item)))
CallToString == Coerced("ToString", Ok(Item_ToString(item)))

NextElems ==
    \/ SetElementSep
    \/ CallToStringArray \/ CallToIntArray \/ CallToFloatArray
    \/ CallToInt \/ CallToFloat \/ CallToString

SpecElems == InitElems /\ [][NextElems]_vars

(* ------------------------------- Load ---------------------------------- *)
\* the loop of Conf.parse, run to its end
RECURSIVE parse(_, _, _, _)
parse(secs, c, buf, pos) ==
    LET p == parseLine(secs, c, buf, pos)
    IN  IF p.stop THEN p ELSE parse(p.sections, p.cur, buf, p.next)

\* Conf.Parse as one call: after a parse without error the cursor is on the
\* global section
Parse(secs, c, buf) ==
    LET p == parse(secs, c, buf, 0)
    IN  [sections |-> p.sections, err |-> p.err,
         cur |-> IF p.err = NoErr THEN _GLOBAL ELSE p.cur]

UpperCase == <<"A", "B", "C", "D", "E", "F", "G", "H", "I", "J", "K", "L", "M",
               "N", "O", "P", "Q", "R", "S", "T", "U", "V", "W", "X", "Y", "Z">>
LowerCase == <<"a", "b", "c", "d", "e", "f", "g", "h", "i", "j", "k", "l", "m",
               "n", "o", "p", "q", "r", "s", "t", "u", "v", "w", "x", "y", "z">>
IsUpper(c) == \E i \in 1..26 : UpperCase[i] = c
\* strings.ToLower
ToLower(str) ==
    [i \in 1..Len(str) |->
        IF IsUpper(str[i]) THEN LowerCase[CHOOSE k \in 1..26 : UpperCase[k] = str[i]]
        ELSE str[i]]

\* the first name tried for a field: every capital becomes its small letter,
\* with '_' before it unless nothing has been written yet
RECURSIVE Underscored(_, _)
Underscored(field, buf) ==
    IF Len(field) = 0 THEN buf
    ELSE LET c == Head(field)
         IN  IF IsUpper(c)
             THEN Underscored(Tail(field),
                              (IF Len(buf) # 0 THEN buf \o <<"_">> ELSE buf) \o ToLower(<<c>>))
             ELSE Underscored(Tail(field), buf \o <<c>>)

\* faulty variant: the field's own name is tried first
parseConfigOptName_ExactFirst(field, secs, c) ==
    LET f1 == Underscored(field, <<>>)
        f2 == ToLower(field)
    IN  IF HasItem(secs, c, field) \/ HasSection(secs, field) THEN field
        ELSE IF HasItem(secs, c, f2) \/ HasSection(secs, f2) THEN f2
        ELSE IF HasItem(secs, c, f1) \/ HasSection(secs, f1) THEN f1
        ELSE <<>>

\* the config option a field is loaded from; "" when there is none
parseConfigOptName(field, secs, c) ==
    LET f1 == Underscored(field, <<>>)
        f2 == ToLower(field)
    IN  IF HasItem(secs, c, f1) \/ HasSection(secs, f1) THEN f1
        ELSE IF HasItem(secs, c, f2) \/ HasSection(secs, f2) THEN f2
        ELSE IF HasItem(secs, c, field) \/ HasSection(secs, field) THEN field
        ELSE <<>>

isInt(k) == k \in {"int", "int64"}

\* what a call of loadField comes to: an error, nothing ("skip"), a value put
\* in the field ("set"), or the fields of a nested struct to load ("enter")
Loaded(what, name, err, val, c) ==
    [what |-> what, name |-> name, err |-> err, val |-> val, cur |-> c]

\* faulty variant: the elements read take the place of the ones the field held
loadSliceField_Replace(fieldMeta, optName, fieldValue, secs, c, sep) ==
    IF fieldMeta.kind = "[]int64"
    THEN LET r == GetIntArray(secs, c, optName, sep)
         IN  IF r.err # NoErr THEN Loaded("error", optName, r.err, fieldValue, c)
             ELSE Loaded("set", optName, NoErr, r.val, c)
    ELSE IF fieldMeta.kind = "[]string"
    THEN LET r == GetStringArray(secs, c, optName, sep)
         IN  IF r.err # NoErr THEN Loaded("error", optName, r.err, fieldValue, c)
             ELSE Loaded("set", optName, NoErr, r.val, c)
    ELSE Loaded("error", optName, Err("not support element type for slice", <<>>),
                fieldValue, c)

\* loadSliceField: the elements read are appended to the slice the field holds
loadSliceField(fieldMeta, optName, fieldValue, secs, c, sep) ==
    IF fieldMeta.kind = "[]int64"
    THEN LET r == GetIntArray(secs, c, optName, sep)
         IN  IF r.err # NoErr THEN Loaded("error", optName, r.err, fieldValue, c)
             ELSE Loaded("set", optName, NoErr, fieldValue \o r.val, c)
    ELSE IF fieldMeta.kind = "[]string"
    THEN LET r == GetStringArray(secs, c, optName, sep)
         IN  IF r.err # NoErr THEN Loaded("error", optName, r.err, fieldValue, c)
             ELSE Loaded("set", optName, NoErr, fieldValue \o r.val, c)
    ELSE Loaded("error", optName, Err("not support element type for slice", <<>>),
                fieldValue, c)

\* faulty variant: a field with no option in the config is looked at before
\* its settability
loadField_ResolveFirst(fieldMeta, fieldValue, secs, c, sep) ==
    LET fieldName == fieldMeta.name
        optName   == parseConfigOptName(fieldName, secs, c)
        kind      == fieldMeta.kind
    IN  IF optName = <<>>
        THEN Loaded("skip", optName, NoErr, fieldValue, c)
        ELSE IF ~fieldMeta.settable
        THEN Loaded("error", <<>>, Err("field not settable, field: ", fieldName), fieldValue, c)
        ELSE IF isInt(kind)
        THEN LET r == GetInt(secs, c, optName)
             IN  IF r.err # NoErr THEN Loaded("error", optName, r.err, fieldValue, c)
                 ELSE Loaded("set", optName, NoErr, r.val, c)
        ELSE IF kind = "string"
        THEN LET r == GetString(secs, c, optName)
             IN  IF r.err # NoErr THEN Loaded("error", optName, r.err, fieldValue, c)
                 ELSE Loaded("set", optName, NoErr, r.val, c)
        ELSE IF kind \in {"[]int64", "[]string", "[]bool"}
        THEN loadSliceField(fieldMeta, optName, fieldValue, secs, c, sep)
        ELSE IF kind = "struct"
        THEN Loaded("enter", optName, NoErr, fieldValue,
                    IF optName \in DOMAIN secs THEN optName ELSE c)
        ELSE Loaded("error", optName, Err("not support type: ", kind), fieldValue, c)

\* faulty variant: a field with no option in the config is an error
loadField_NeedsOption(fieldMeta, fieldValue, secs, c, sep) ==
    LET fieldName == fieldMeta.name
        optName   == parseConfigOptName(fieldName, secs, c)
        kind      == fieldMeta.kind
    IN  IF ~fieldMeta.settable
        THEN Loaded("error", <<>>, Err("field not settable, field: ", fieldName), fieldValue, c)
        ELSE IF optName = <<>>
        THEN Loaded("error", optName, Err("non-exist item", fieldName), fieldValue, c)
        ELSE IF isInt(kind)
        THEN LET r == GetInt(secs, c, optName)
             IN  IF r.err # NoErr THEN Loaded("error", optName, r.err, fieldValue, c)
                 ELSE Loaded("set", optName, NoErr, r.val, c)
        ELSE IF kind = "string"
        THEN LET r == GetString(secs, c, optName)
             IN  IF r.err # NoErr THEN Loaded("error", optName, r.err, fieldValue, c)
                 ELSE Loaded("set", optName, NoErr, r.val, c)
        ELSE IF kind \in {"[]int64", "[]string", "[]bool"}
        THEN loadSliceField(fieldMeta, optName, fieldValue, secs, c, sep)
        ELSE IF kind = "struct"
        THEN Loaded("enter", optName, NoErr, fieldValue,
                    IF optName \in DOMAIN secs THEN optName ELSE c)
        ELSE Loaded("error", optName, Err("not support type: ", kind), fieldValue, c)

\* loadField, up to the loop over the fields of a nested struct.  The field
\* must be settable; a field with no option in the config is left alone; a
\* number, a string or a slice is read with the getter of its kind; for a
\* struct, Section(optName) is called and what it returns is dropped, so the
\* cursor moves only when optName is a registered section.
loadField(fieldMeta, fieldValue, secs, c, sep) ==
    LET fieldName == fieldMeta.name
        optName   == parseConfigOptName(fieldName, secs, c)
        kind      == fieldMeta.kind
    IN  IF ~fieldMeta.settable
        THEN Loaded("error", <<>>, Err("field not settable, field: ", fieldName), fieldValue, c)
        ELSE IF optName = <<>>
        THEN Loaded("skip", optName, NoErr, fieldValue, c)
        ELSE IF isInt(kind)
        THEN LET r == GetInt(secs, c, optName)
             IN  IF r.err # NoErr THEN Loaded("error", optName, r.err, fieldValue, c)
                 ELSE Loaded("set", optName, NoErr, r.val, c)
        ELSE IF kind = "string"
        THEN LET r == GetString(secs, c, optName)
             IN  IF r.err # NoErr THEN Loaded("error", optName, r.err, fieldValue, c)
                 ELSE Loaded("set", optName, NoErr, r.val, c)
        ELSE IF kind \in {"[]int64", "[]string", "[]bool"}
        THEN loadSliceField(fieldMeta, optName, fieldValue, secs, c, sep)
        ELSE IF kind = "struct"
        THEN Loaded("enter", optName, NoErr, fieldValue,
                    IF optName \in DOMAIN secs THEN optName ELSE c)
        ELSE Loaded("error", optName, Err("not support type: ", kind), fieldValue, c)

(* the config objects *)
Field(name, kind) == [name |-> name, kind |-> kind, settable |-> TRUE, fields |-> <<>>]
Unexported(name, kind) == [name |-> name, kind |-> kind, settable |-> FALSE, fields |-> <<>>]
Struct(name, fields) == [name |-> name, kind |-> "struct", settable |-> TRUE, fields |-> fields]

\* the fields of the struct at a path of field indices; the object itself is
\* at the empty path
RECURSIVE FieldsAt(_, _)
FieldsAt(type, path) ==
    IF Len(path) = 0 THEN type ELSE FieldsAt(type[Head(path)].fields, Tail(path))

FieldAt(type, path) == FieldsAt(type, SubSeq(path, 1, Len(path) - 1))[path[Len(path)]]

\* the paths of the fields that are not structs
RECURSIVE LeafPaths(_)
LeafPaths(type) ==
    UNION { IF type[i].kind = "struct"
            THEN {<<i>> \o p : p \in LeafPaths(type[i].fields)}
            ELSE {<<i>>} : i \in 1..Len(type) }

\* the value a field holds before Load
Preset(kind) ==
    IF isInt(kind) THEN 7
    ELSE IF kind = "string" THEN <<"d">>
    ELSE IF kind = "[]int64" THEN <<9>>
    ELSE IF kind = "bool" THEN FALSE
    ELSE <<>>

Inner == <<Field(<<"A", "B">>, "int")>>

ConfigObjs ==
    { <<Field(<<"C">>, "string"), Field(<<"A", "B">>, "int"), Field(<<"L">>, "[]int64")>>,
      <<Struct(<<"S">>, Inner), Struct(<<"T">>, Inner), Field(<<"A", "B">>, "int")>>,
      <<Struct(<<"M">>, <<Struct(<<"S">>, Inner), Field(<<"A", "B">>, "int")>>),
        Field(<<"C">>, "string")>>,
      <<Field(<<"A", "B">>, "int"), Unexported(<<"c">>, "string"), Field(<<"C">>, "string")>>,
      <<Field(<<"C">>, "string"), Field(<<"B">>, "bool"), Field(<<"A", "B">>, "int")>> }

\* lines naming the fields in each of the three ways, sections (one of them
\* with the name of a string field), and a value that is no number
LoadLines ==
    { <<"a", "_", "b", ":", "1">>,
      <<"a", "b", ":", "2">>,
      <<"A", "B", ":", "3">>,
      <<"a", "b", ":", "x">>,
      <<"c", ":", "v">>,
      <<"l", ":", "1", " ", "2">>,
      <<"l", ":", "3", " ", "x">>,
      <<"[", "s", "]">>,
      <<"[", "t", "]">>,
      <<"[", "m", "]">>,
      <<"[", "c", "]">>,
      <<"s", ":", "5">> }

LoadFiles == Files(LoadLines, MaxLoadLines)

\* Load has been called with a pointer to a config object and the file
InitLoad ==
    /\ InitConf(LoadFiles)
    /\ item = [rawKey |-> <<>>, val |-> <<>>]
    /\ out = [op |-> "none", st |-> "ok", err |-> NoErr, val |-> <<>>, sep |-> _DEFAULT_SEP]
    /\ NoOldConf
    /\ \E type \in ConfigObjs :
          loader = [st |-> "new", type |-> type,
                    obj |-> [p \in LeafPaths(type) |-> Preset(FieldAt(type, p).kind)],
                    stack |-> <<>>, err |-> NoErr, log |-> <<>>]

LoadFrame == UNCHANGED <<input, rd, pc, log, nparse, ret, sel, elementSep, item, out, conf0>>

\* Load up to its loop: New and Parse; an error of Parse is returned
LoadOpen ==
    /\ loader.st = "new"
    /\ LET p == Parse(sections, cur, input)
       IN  /\ sections' = p.sections
           /\ cur' = p.cur
           /\ perr' = p.err
           /\ loader' = IF p.err # NoErr
                        THEN [loader EXCEPT !.st = "failed", !.err = p.err]
                        ELSE [loader EXCEPT !.st = "fields",
                                            !.stack = <<[path |-> <<>>, i |-> 1]>>]
    /\ LoadFrame

\* the struct whose fields are being loaded, and the field the loop is at
Top == loader.stack[Len(loader.stack)]
AtField == Top.path \o <<Top.i>>
MoreFields == loader.st = "fields" /\ Top.i <= Len(FieldsAt(loader.type, Top.path))
FieldValue(path) == IF path \in DOMAIN loader.obj THEN loader.obj[path] ELSE <<>>
Step(r) == [path |-> AtField, field |-> FieldAt(loader.type, AtField), at |-> cur,
            what |-> r.what, name |-> r.name, err |-> r.err, val |-> r.val]
Advance(stack) == [stack EXCEPT ![Len(stack)].i = @ + 1]

\* faulty variant: the error of a field is kept but the loop goes on
LoadField_KeepGoing ==
    /\ MoreFields
    /\ LET r == loadField(FieldAt(loader.type, AtField), FieldValue(AtField),
                          sections, cur, elementSep)
       IN  /\ r.what # "enter"
           /\ loader' =
                IF r.what = "error"
                THEN [loader EXCEPT !.err = r.err, !.stack = Advance(@),
                                    !.log = Append(@, Step(r))]
                ELSE IF r.what = "set"
                THEN [loader EXCEPT !.obj[AtField] = r.val, !.stack = Advance(@),
                                    !.log = Append(@, Step(r))]
                ELSE [loader EXCEPT !.stack = Advance(@), !.log = Append(@, Step(r))]
    /\ UNCHANGED <<sections, cur, perr>>
    /\ LoadFrame

\* a call of loadField on a field that is no struct, or that is not loaded
LoadField ==
    /\ MoreFields
    /\ LET r == loadField(FieldAt(loader.type, AtField), FieldValue(AtField),
                          sections, cur, elementSep)
       IN  /\ r.what # "enter"
           /\ loader' =
                IF r.what = "error"
                THEN [loader EXCEPT !.st = "failed", !.err = r.err,
                                    !.log = Append(@, Step(r))]
                ELSE IF r.what = "set"
                THEN [loader EXCEPT !.obj[AtField] = r.val, !.stack = Advance(@),
                                    !.log = Append(@, Step(r))]
                ELSE [loader EXCEPT !.stack = Advance(@), !.log = Append(@, Step(r))]
    /\ UNCHANGED <<sections, cur, perr>>
    /\ LoadFrame

\* a call of loadField on a struct field: Section, then the loop over the
\* fields of the struct begins
LoadStruct ==
    /\ MoreFields
    /\ LET r == loadField(FieldAt(loader.type, AtField), FieldValue(AtField),
                          sections, cur, elementSep)
       IN  /\ r.what = "enter"
           /\ cur' = r.cur
           /\ loader' = [loader EXCEPT !.stack = Append(@, [path |-> AtField, i |-> 1]),
                                       !.log = Append(@, Step(r))]
    /\ UNCHANGED <<sections, perr>>
    /\ LoadFrame

\* the loop over the fields of a nested struct is over: SetGlobalSection, and
\* the loop the call was made from goes on
LoadReturn ==
    /\ loader.st = "fields"
    /\ ~MoreFields
    /\ Len(loader.stack) > 1
    /\ cur' = _GLOBAL
    /\ loader' = [loader EXCEPT !.stack = Advance(SubSeq(@, 1, Len(@) - 1))]
    /\ UNCHANGED <<sections, perr>>
    /\ LoadFrame

\* the loop of Load is over: Load returns nil
LoadDone ==
    /\ loader.st = "fields"
    /\ ~MoreFields
    /\ Len(loader.stack) = 1
    /\ loader' = [loader EXCEPT !.st = "done"]
    /\ UNCHANGED <<sections, cur, perr>>
    /\ LoadFrame

NextLoad == LoadOpen \/ LoadField \/ LoadStruct \/ LoadReturn \/ LoadDone

SpecLoad == InitLoad /\ [][NextLoad]_vars

(* ------------- the two parsers of the revisions without sections ------ *)
_PARSE_ERR == 0
_PARSE_START == 1
_PARSE_FOUND_KEY == 2
_PARSE_FOUND_VAL == 3
_PARSE_FOUND_KV == 4
_PARSE_DONE == 5

\* Item{rawKey, val, key}
Item0(rawKey, val, key) == [rawKey |-> rawKey, val |-> val, key |-> key]

\* strings.TrimLeft
TrimLeft(s, cutset) ==
    LET keep == {i \in 1..Len(s) : s[i] \notin cutset}
    IN  IF keep = {} THEN <<>> ELSE SubSeq(s, SetMin(keep), Len(s))

\* io.EOF
EOF == Err("EOF", <<>>)

\* One pass of the loop of the line-at-a-time Parse: the line is trimmed on
\* the left, an empty line or a comment is passed over, and a line is split
\* at its first ':' into the raw key and the value, which must not be empty.
parseLine0(items, buf, pos) ==
    LET r       == ReadString(buf, pos, _NEWLINE)
        left    == TrimLeft(r.line, _SPACE_CHARS)
        lineStr == IF Len(left) > 0 /\ left[Len(left)] = _NEWLINE
                   THEN SubSeq(left, 1, Len(left) - 1) ELSE left
        parts   == SplitN2(lineStr, _KV_SEP)
        rawKey  == Trim(parts[1], _SPACE_CHARS)
        key     == parseKey(rawKey)
        val     == Trim(parts[2], _SPACE_CHARS)
        go      == [items |-> items, next |-> r.next, stop |-> FALSE, err |-> NoErr]
    IN  IF Len(r.line) = 0 /\ r.eof THEN [go EXCEPT !.stop = TRUE]
        ELSE IF Len(left) = 0 THEN go
        ELSE IF lineStr[1] = _COMMENT_TAG THEN go
        ELSE IF Len(parts) # 2
        THEN [go EXCEPT !.stop = TRUE, !.err = Err("the line need a ':', line: ", lineStr)]
        ELSE IF Len(val) = 0
        THEN [go EXCEPT !.stop = TRUE, !.err = Err("an empty value", <<>>)]
        ELSE [go EXCEPT !.items = (key :> Item0(rawKey, val, key)) @@ items]

\* the text of a buffer without its last byte, trimmed
extraceString(buf) == Trim(SubSeq(buf, 1, Len(buf) - 1), _SPACE_CHARS)

isSpaceBuf(buf) == \A i \in 1..Len(buf) : buf[i] \in {" ", "\n", "\t"}

\* lines of every kind the two parsers may take differently
OldLines ==
    { <<"a", ":", "b">>,
      <<"#", "a", ":", "b">>,
      <<"a", "b">>,
      <<"a", ":">>,
      <<" ", "a", " ", ":", " ", "c", ":", "d", "\t">>,
      <<"[", "@", "k", "@", ",", "]", ":", "1", ",", "2">>,
      <<" ">> }

OldFiles == Files(OldLines, MaxOldLines) \cup Terminated(Files(OldLines, MaxOldLines))

\* New of either revision, on the same bytes
InitOld ==
    /\ InitConf(OldFiles)
    /\ item = [rawKey |-> <<>>, val |-> <<>>]
    /\ out = [op |-> "none", st |-> "ok", err |-> NoErr, val |-> <<>>, sep |-> _DEFAULT_SEP]
    /\ NoLoad
    /\ conf0 = [st |-> "made",
                ln |-> [items |-> << >>, pos |-> 0, st |-> "run", err |-> NoErr],
                sm |-> [items |-> << >>, pos |-> 0, st |-> "run", err |-> NoErr,
                        curState |-> _PARSE_START, parseBuf |-> <<>>, key |-> <<>>,
                        valStr |-> <<>>]]

OldFrame == UNCHANGED <<input, rd, sections, cur, pc, perr, log, nparse, ret, sel, elementSep,
                        item, out, loader>>

\* a pass of the loop of the line-at-a-time Parse; the pass that stops the
\* loop returns from Parse
ParseLine0 ==
    /\ conf0.st = "made"
    /\ conf0.ln.st = "run"
    /\ LET p == parseLine0(conf0.ln.items, input, conf0.ln.pos)
       IN  conf0' = [conf0 EXCEPT !.ln = [items |-> p.items, pos |-> p.next, err |-> p.err,
                                          st |-> IF ~p.stop THEN "run"
                                                 ELSE IF p.err = NoErr THEN "ok" ELSE "err"]]
    /\ OldFrame

Machine(state) == conf0.st = "made" /\ conf0.sm.st = "run" /\ conf0.sm.curState = state

\* case _PARSE_START: read up to the next ':'
ParseStart ==
    /\ Machine(_PARSE_START)
    /\ LET r == ReadString(input, conf0.sm.pos, _KV_SEP)
       IN  conf0' = [conf0 EXCEPT
                       !.sm.parseBuf = r.line,
                       !.sm.pos = r.next,
                       !.sm.err = IF r.eof THEN EOF ELSE NoErr,
                       !.sm.curState = IF r.eof /\ isSpaceBuf(r.line) THEN _PARSE_DONE
                                       ELSE IF r.eof THEN _PARSE_ERR
                                       ELSE _PARSE_FOUND_KEY]
    /\ OldFrame

\* case _PARSE_FOUND_KEY: keep the key, read up to the next newline
ParseFoundKey ==
    /\ Machine(_PARSE_FOUND_KEY)
    /\ LET r == ReadString(input, conf0.sm.pos, _NEWLINE)
       IN  conf0' = [conf0 EXCEPT
                       !.sm.key = extraceString(conf0.sm.parseBuf),
                       !.sm.parseBuf = r.line,
                       !.sm.pos = r.next,
                       !.sm.err = IF r.eof THEN EOF ELSE NoErr,
                       !.sm.curState = IF (r.eof /\ ~isSpaceBuf(r.line)) \/ ~r.eof
                                       THEN _PARSE_FOUND_VAL ELSE _PARSE_ERR]
    /\ OldFrame

\* case _PARSE_FOUND_VAL
ParseFoundVal ==
    /\ Machine(_PARSE_FOUND_VAL)
    /\ conf0' = [conf0 EXCEPT !.sm.valStr = extraceString(conf0.sm.parseBuf),
                              !.sm.curState = _PARSE_FOUND_KV]
    /\ OldFrame

\* case _PARSE_FOUND_KV
ParseFoundKV ==
    /\ Machine(_PARSE_FOUND_KV)
    /\ LET rawKey == conf0.sm.key
           key    == parseKey(rawKey)
       IN  conf0' = [conf0 EXCEPT
                       !.sm.key = key,
                       !.sm.items = (key :> Item0(rawKey, conf0.sm.valStr, key)) @@ @,
                       !.sm.curState = _PARSE_START]
    /\ OldFrame

\* case _PARSE_ERR: return err
ParseErr ==
    /\ Machine(_PARSE_ERR)
    /\ conf0' = [conf0 EXCEPT !.sm.st = "err"]
    /\ OldFrame

\* case _PARSE_DONE: return nil
ParseEnd ==
    /\ Machine(_PARSE_DONE)
    /\ conf0' = [conf0 EXCEPT !.sm.st = "ok", !.sm.err = NoErr]
    /\ OldFrame

NextOld ==
    \/ ParseLine0
    \/ ParseStart \/ ParseFoundKey \/ ParseFoundVal \/ ParseFoundKV \/ ParseErr \/ ParseEnd

SpecOld == InitOld /\ [][NextOld]_vars

(* ======================= the claims, read off the text ================= *)
\* The file grammar, applied to the text of the file and not to what the
\* parser made of it.
TextLines == {i \in 1..Len(Split(input, _NEWLINE)) : TRUE}
TextLine(i) == Trim(Split(input, _NEWLINE)[i], _SPACE_CHARS)

Blank(t) == t = <<>>
Comment(t) == t # <<>> /\ t[1] = _COMMENT_TAG
Bracketed(t) == Len(t) >= 2 /\ t[1] = "[" /\ t[Len(t)] = "]"
HasColon(t) == \E i \in 1..Len(t) : t[i] = ":"
KeyOf(t) == Trim(SplitN2(t, ":")[1], _SPACE_CHARS)
ValOf(t) == Trim(SplitN2(t, ":")[2], _SPACE_CHARS)

\* [@name] or [@name@c]
CompositeKey(k) == Len(k) >= 4 /\ k[1] = "[" /\ k[2] = "@" /\ k[Len(k)] = "]"
HasSepByte(k) == Len(k) >= 6 /\ k[Len(k) - 2] = "@"
NameOf(k) == IF HasSepByte(k) THEN SubSeq(k, 3, Len(k) - 3) ELSE SubSeq(k, 3, Len(k) - 1)
SepOf(k) == IF HasSepByte(k) THEN k[Len(k) - 1] ELSE " "

\* a section header: bracketed, and not a key:value line with a composite key
Header(t) == Bracketed(t) /\ ~(HasColon(t) /\ CompositeKey(KeyOf(t)))
\* a key:value line
KeyValue(t) == ~Blank(t) /\ ~Comment(t) /\ ~Header(t) /\ HasColon(t)

\* the first Parse call on the Conf has returned and none has followed
ParsedOnce == pc = "idle" /\ nparse = 1

\* the last line of the file that gives key k a value
LastFor(k) ==
    SetMax({i \in TextLines : KeyValue(TextLine(i)) /\ KeyOf(TextLine(i)) = k})

\* only blank lines, comments and key:value lines with a key and a value
ScalarFile ==
    \A i \in TextLines :
        LET t == TextLine(i)
        IN  \/ Blank(t)
            \/ Comment(t)
            \/ KeyValue(t) /\ KeyOf(t) # <<>> /\ ValOf(t) # <<>>

\* C1: a file of blank lines, comments and key:value lines with a non-empty
\* key and a non-empty trimmed value parses without error, and GetString of
\* each key then returns the trimmed value the file gives it (that of the
\* last line with the key).
C1_EveryScalarLineIsReadBack ==
    (ParsedOnce /\ ScalarFile) =>
        /\ perr = NoErr
        /\ \A i \in TextLines :
             KeyValue(TextLine(i)) =>
                LET k == KeyOf(TextLine(i))
                IN  GetString(sections, cur, k)
                      = [err |-> NoErr, val |-> ValOf(TextLine(LastFor(k)))]

\* the elements of a value: its parts between separators, trimmed, the empty
\* ones left out
Elements(v, c) ==
    LET parts == Split(v, c)
        F[n \in 0..Len(parts)] ==
            IF n = 0 THEN <<>>
            ELSE IF Trim(parts[n], _SPACE_CHARS) = <<>> THEN F[n - 1]
            ELSE Append(F[n - 1], Trim(parts[n], _SPACE_CHARS))
    IN  F[Len(parts)]

\* C2: after Parse of a file of key:value lines, an array line [@K@c]: ...
\* or [@K]: ... is found under the key K, and GetStringArray(K) returns its
\* elements split on c, or on ' ' when the key names no separator.  (Lines
\* that end in ']' are left out here: C1 and C25 are about them.)
C2_ArrayLineStoredUnderName ==
    (ParsedOnce /\ ScalarFile /\ perr = NoErr
       /\ \A i \in TextLines : ~Bracketed(TextLine(i))) =>
        \A i \in TextLines :
            LET t == TextLine(i)
            IN  (KeyValue(t) /\ CompositeKey(KeyOf(t)) /\ LastFor(KeyOf(t)) = i) =>
                   /\ HasItem(sections, cur, NameOf(KeyOf(t)))
                   /\ GetStringArray(sections, cur, NameOf(KeyOf(t)), elementSep)
                        = [err |-> NoErr, val |-> Elements(ValOf(t), SepOf(KeyOf(t)))]

\* C3: ToIntArray of the Item ("[@K]", "1 2 3") is [1, 2, 3], and so is
\* ToIntArray of ("[@K@c]", "1c2c3") for every separator byte c.
C3_SeparatorOverride ==
    out.op = "ToIntArray" =>
        /\ (item = [rawKey |-> <<"[", "@", "K", "]">>, val |-> Joined(" ")]) =>
               (out.st = "ok" /\ out.val = <<1, 2, 3>>)
        /\ \A c \in SepBytes :
               (item = [rawKey |-> ArrayKey(c), val |-> Joined(c)]) =>
                   (out.st = "ok" /\ out.val = <<1, 2, 3>>)

\* C10: the array conversions of an Item whose rawKey is not a composite
\* key return the not-an-array error (no array, no panic), and ToString
\* returns the value whatever the rawKey.
C10_NotAnArrayError ==
    /\ (out.op \in {"ToStringArray", "ToIntArray", "ToFloatArray"}
          /\ ~CompositeKey(item.rawKey)) =>
             (out.st = "error" /\ out.err = Err("item is not a Array, key:", item.rawKey))
    /\ out.op = "ToString" => (out.st = "ok" /\ out.val = item.val)

\* the name a bracketed line declares
DeclaredName(t) == Trim(SubSeq(t, 2, Len(t) - 1), _SPACE_CHARS)

\* the text of the line the running Parse reads next
NextText == Trim(ReadString(input, rd, _NEWLINE).line, _SPACE_CHARS)

\* C4: a section header whose name, trimmed, is already registered makes
\* Parse return an error that names it, and leaves every section as it was.
C4_SectionsAreWriteOnce ==
    [][ (pc = "parsing" /\ Header(NextText) /\ DeclaredName(NextText) \in DOMAIN sections)
          => /\ pc' = "idle"
             /\ perr' = Err("section already exist", DeclaredName(NextText))
             /\ sections' = sections ]_vars

\* Parse has failed on a second [S] (written [ S ]) after [S] got an item
C4_Witness ==
    /\ pc = "idle"
    /\ nparse = 1
    /\ perr = Err("section already exist", <<"S">>)
    /\ log[Len(log)].line = <<"[", " ", "S", " ", "]">>
    /\ <<"a">> \in DOMAIN sections[<<"S">>]

EmptyValueLine(t) == KeyValue(t) /\ ValOf(t) = <<>>

\* C5: no section ever holds an item with an empty value; the pass that
\* reads a key:value line with an empty trimmed value is the last one and
\* Parse returns the empty-value error; a file with such a line never parses
\* without error.
C5_EmptyValueIsAnError ==
    /\ \A s \in DOMAIN sections : \A k \in DOMAIN sections[s] : sections[s][k].val # <<>>
    /\ \A i \in DOMAIN log :
          EmptyValueLine(log[i].line) =>
              (i = Len(log) /\ pc = "idle" /\ perr = Err("an empty value", <<>>))
    /\ (pc = "idle" /\ nparse >= 1 /\ \E i \in TextLines : EmptyValueLine(TextLine(i)))
          => perr # NoErr

\* the file "a: " without a newline has been refused
C5_Witness ==
    /\ input = <<"a", ":", " ">>
    /\ pc = "idle"
    /\ perr = Err("an empty value", <<>>)
    /\ sections[_GLOBAL] = <<>>

NoColonLine(t) == ~Blank(t) /\ ~Comment(t) /\ ~Header(t) /\ ~HasColon(t)

\* C6: the pass that reads a line that is not blank, not a comment, not a
\* section header and has no ':' is the last one and Parse returns the
\* need-':' error citing the line; a file with such a line never parses
\* without error.
C6_MissingColonIsAnError ==
    /\ \A i \in DOMAIN log :
          NoColonLine(log[i].line) =>
              (i = Len(log) /\ pc = "idle" /\ perr = Err("need ':' in a line", log[i].line))
    /\ (pc = "idle" /\ nparse >= 1 /\ \E i \in TextLines : NoColonLine(TextLine(i)))
          => perr # NoErr

\* Parse has failed on the last line of a file, after storing earlier lines
C6_Witness ==
    /\ pc = "idle"
    /\ nparse = 1
    /\ perr.kind = "need ':' in a line"
    /\ Len(log) = 3
    /\ log[1].what = "kv" /\ log[2].what = "kv"
    /\ rd = Len(input)
    /\ input[Len(input)] # _NEWLINE

\* the section the text puts line i in: the one the last bracketed line
\* before it declares, or the global one
SectionAt(i) ==
    LET hs == {j \in 1..(i - 1) : Bracketed(TextLine(j))}
    IN  IF hs = {} THEN _GLOBAL ELSE DeclaredName(TextLine(SetMax(hs)))

\* the keys of the key:value lines the text puts in section s
DeclaredUnder(s) ==
    {KeyOf(TextLine(i)) : i \in {j \in TextLines : KeyValue(TextLine(j)) /\ SectionAt(j) = s}}

\* C7: a lookup made after a cursor call is answered from the section that
\* call named and from no other: HasItem, GetItem and the typed getters find
\* a key exactly when that section holds it, and return that section's item.
\* After one Parse without error the section holds exactly the keys the text
\* declares under it.
C7_LookupsAreScoped ==
    sel.known =>
        LET here == sections[sel.name]
            has  == ret.arg \in DOMAIN here
        IN  /\ ret.op = "HasItem" => ret.val = has
            /\ ret.op = "GetItem" =>
                  IF has THEN ret.err = NoErr /\ ret.val = here[ret.arg]
                  ELSE ret.err = Err("non-exist item", ret.arg)
            /\ ret.op = "GetString" =>
                  IF has THEN ret.err = NoErr /\ ret.val = here[ret.arg].val
                  ELSE ret.err = Err("non-exist item", ret.arg)
            /\ ret.op = "GetInt" =>
                  IF has THEN ret.err = ParseInt(here[ret.arg].val).err
                              /\ ret.val = ParseInt(here[ret.arg].val).val
                  ELSE ret.err = Err("non-exist item", ret.arg)
            /\ ret.op \in {"GetIntArray", "GetStringArray"} =>
                  (ret.err = Err("non-exist item", ret.arg)) = ~has
            /\ (ret.op = "HasItem" /\ ParsedOnce /\ perr = NoErr) =>
                  ret.val = (ret.arg \in DeclaredUnder(sel.name))

\* with the cursor on S, HasItem("c") is false although the global section has c
C7_Witness ==
    /\ sel.known /\ sel.name = <<"S">>
    /\ ret.op = "HasItem" /\ ret.arg = <<"c">> /\ ret.val = FALSE
    /\ <<"c">> \in DOMAIN sections[_GLOBAL]
    /\ <<"a">> \in DOMAIN sections[<<"S">>]

\* C8: Section(name) with a registered name returns no error and puts the
\* cursor on that section; with an unregistered name it returns an error and
\* leaves the cursor where it was; neither changes a section.  (A step is a
\* Section call when it records one and is not a repetition of the call
\* before it that changes nothing.)
C8_SectionMovesOrFails ==
    [][ (/\ pc = "idle" /\ pc' = "idle"
         /\ ret'.op = "Section"
         /\ (ret'.op # ret.op \/ ret'.arg # ret.arg \/ ret'.err # ret.err \/ cur' # cur)) =>
          /\ sections' = sections
          /\ IF ret'.arg \in DOMAIN sections
             THEN ret'.err = NoErr /\ cur' = ret'.arg
             ELSE ret'.err = Err("no section", ret'.arg) /\ cur' = cur ]_vars

\* Section("T") has failed with the cursor on S, which it left there
C8_Witness ==
    /\ ret.op = "Section" /\ ret.arg = <<"T">> /\ ret.err # NoErr
    /\ cur = <<"S">>
    /\ sel.known /\ sel.name = <<"S">>

\* the lines the running first Parse has stored, and the bracketed lines
StoredAt(i) == log[i].what = "kv"
HeaderAt(i) == Bracketed(log[i].line)

\* C9: while a new Conf is parsed, a key:value line goes to the global
\* section exactly when no section header came before it, and otherwise to
\* the section the last header before it declared; once a header has been
\* read the parser's cursor is never the global section again.
C9_GlobalItemsComeFirst ==
    nparse = 1 =>
        /\ \A i \in DOMAIN log :
              StoredAt(i) =>
                  LET hs == {j \in 1..(i - 1) : HeaderAt(j)}
                  IN  /\ (log[i].into = _GLOBAL) = (hs = {})
                      /\ hs # {} => log[i].into = DeclaredName(log[SetMax(hs)].line)
                      /\ log[i].key \in DOMAIN sections[log[i].into]
        /\ (pc = "parsing" /\ \E j \in DOMAIN log : HeaderAt(j)) => cur # _GLOBAL

\* a line stored in the global section, then [S], then a line stored in S
C9_Witness ==
    /\ nparse = 1
    /\ Len(log) = 3
    /\ StoredAt(1) /\ log[1].into = _GLOBAL
    /\ HeaderAt(2)
    /\ StoredAt(3) /\ log[3].into = <<"S">>
    /\ <<"a">> \in DOMAIN sections[_GLOBAL] /\ <<"a">> \in DOMAIN sections[<<"S">>]


(* ------------------------------ C11, C12 ------------------------------- *)
\* tokens: text with no space, tab or newline in it
Tokens == { <<"1">>, <<"2", "2">>, <<"-", "3">>, <<"x">> }
TokenLists == UNION {[1..n -> Tokens] : n \in 1..MaxElems}
\* the integer a token writes, for the tokens that write one
Number == (<<"1">> :> 1) @@ (<<"2", "2">> :> 22) @@ (<<"-", "3">> :> -3)
PlainKey(k) == \A i \in 1..Len(k) : k[i] \notin {"[", "]", "@", "$"}

\* C11: for an Item with a plain key whose value is tokens with the default
\* separator ' ' between them (and the default separator in force),
\* ToStringArray returns the tokens in their order, and ToIntArray returns
\* without error the integers the tokens write, in that order.
C11_TokensInOrder ==
    \A toks \in TokenLists :
        (/\ PlainKey(item.key)
         /\ item.val = JoinSep(toks, _DEFAULT_SEP)
         /\ out.sep = _DEFAULT_SEP) =>
            /\ out.op = "ToStringArray" => (out.st = "ok" /\ out.val = toks)
            /\ (out.op = "ToIntArray" /\ \A i \in 1..Len(toks) : toks[i] \in DOMAIN Number) =>
                  (out.st = "ok" /\ out.val = [i \in 1..Len(toks) |-> Number[toks[i]]])

C11_Witness ==
    /\ item = Item(<<"k">>, <<"2", "2", " ", "-", "3", " ", "1">>)
    /\ out.sep = _DEFAULT_SEP
    /\ out.op = "ToIntArray"
    /\ out.val = <<22, -3, 1>>

\* C12: ToStringArray never returns an empty string as an element, and every
\* element it returns is trimmed of space, tab and newline.
C12_NoEmptyElement ==
    out.op = "ToStringArray" =>
        \A i \in 1..Len(out.val) :
            out.val[i] # <<>> /\ Trim(out.val[i], _SPACE_CHARS) = out.val[i]

(* -------------------------------- C13 ---------------------------------- *)
Getters == {"GetInt", "GetFloat", "GetString", "GetIntArray", "GetFloatArray",
            "GetStringArray", "GetItem", "HasItem", "Items"}
Range(f) == {f[i] : i \in DOMAIN f}

NameVariants ==
    (<<"A", "B">> :> << <<"a", "_", "b">>, <<"a", "b">>, <<"A", "B">> >>) @@
    (<<"C">> :> << <<"c">>, <<"c">>, <<"C">> >>) @@
    (<<"L">> :> << <<"l">>, <<"l">>, <<"L">> >>) @@
    (<<"B">> :> << <<"b">>, <<"b">>, <<"B">> >>) @@
    (<<"S">> :> << <<"s">>, <<"s">>, <<"S">> >>) @@
    (<<"T">> :> << <<"t">>, <<"t">>, <<"T">> >>) @@
    (<<"M">> :> << <<"m">>, <<"m">>, <<"M">> >>) @@
    (<<"c">> :> << <<"c">>, <<"c">>, <<"c">> >>)

\* a name is in the config, seen from a section, when it is an item of that
\* section or a registered section
Present(name, at) == name \in DOMAIN sections[at] \/ name \in DOMAIN sections

\* the variants of a field that are in the config, by their rank
PresentRanks(e) == {k \in 1..3 : Present(NameVariants[e.field.name][k], e.at)}
FirstPresent(e) == NameVariants[e.field.name][SetMin(PresentRanks(e))]

\* the integers the values of the files write
IntOf == (<<"1">> :> 1) @@ (<<"2">> :> 2) @@ (<<"3">> :> 3) @@ (<<"5">> :> 5)

Calls == loader.log
Under(path, p) == Len(p) >= Len(path) /\ SubSeq(p, 1, Len(path)) = path
Untouched(path) ==
    \A p \in DOMAIN loader.obj :
        Under(path, p) => loader.obj[p] = Preset(FieldAt(loader.type, p).kind)

\* C14: a settable field some variant of whose name is in the config is
\* loaded under the first such variant in the order a_example_field,
\* aexamplefield, AExampleField; an integer or string field that is assigned
\* gets the value the config gives that variant.
C14_FirstVariantWins ==
    \A i \in DOMAIN Calls :
        LET e == Calls[i]
        IN  (e.field.settable /\ PresentRanks(e) # {}) =>
                /\ e.name = FirstPresent(e)
                /\ (e.what = "set" /\ e.field.kind = "int") =>
                      loader.obj[e.path] = IntOf[sections[e.at][FirstPresent(e)].val]
                /\ (e.what = "set" /\ e.field.kind = "string") =>
                      loader.obj[e.path] = sections[e.at][FirstPresent(e)].val

C14_Witness ==
    /\ loader.st = "done"
    /\ DOMAIN sections[_GLOBAL] = { <<"a", "b">>, <<"A", "B">> }
    /\ \E i \in DOMAIN Calls :
          /\ Calls[i].field.name = <<"A", "B">>
          /\ Calls[i].at = _GLOBAL
          /\ Calls[i].what = "set"
          /\ loader.obj[Calls[i].path] = 2

\* C15: a settable field none of whose name variants is an item of the
\* current section or a registered section is passed over without error,
\* whatever its kind: it (with the fields inside it) keeps the value it had,
\* Load has not failed at it, and the field declared after it is the next one
\* Load looks at.
C15_AbsentFieldIsLeftAlone ==
    \A i \in DOMAIN Calls :
        LET e    == Calls[i]
            up   == SubSeq(e.path, 1, Len(e.path) - 1)
            k    == e.path[Len(e.path)]
        IN  (e.field.settable /\ PresentRanks(e) = {}) =>
                /\ e.what = "skip"
                /\ e.err = NoErr
                /\ Untouched(e.path)
                /\ i = Len(Calls) => loader.st # "failed"
                /\ (i < Len(Calls) /\ k < Len(FieldsAt(loader.type, up))) =>
                      Calls[i + 1].path = up \o <<k + 1>>

C15_Witness ==
    /\ Len(Calls) = 3
    /\ Calls[2].field.kind = "bool"
    /\ PresentRanks(Calls[2]) = {}
    /\ Calls[2].what = "skip"
    /\ Calls[3].what = "set"

\* the call of loadField on the struct a field is declared in
Outer(e) == Calls[CHOOSE j \in DOMAIN Calls : Calls[j].path = SubSeq(e.path, 1, Len(e.path) - 1)]

C17_RecordNeedsASection ==
    \A i \in DOMAIN Calls :
        LET e == Calls[i]
        IN  (/\ e.field.kind = "struct"
             /\ e.field.settable
             /\ PresentRanks(e) # {}
             /\ FirstPresent(e) \notin DOMAIN sections) =>
                /\ e.what = "error"
                /\ i = Len(Calls)
                /\ loader.st = "failed"
                /\ Untouched(e.path)

\* a number or string field whose getter cannot succeed: the name it is loaded
\* under is no item of the current section, or the item's text is no integer
GetterFails(e) ==
    /\ e.field.settable
    /\ e.field.kind \in {"int", "string"}
    /\ PresentRanks(e) # {}
    /\ \/ FirstPresent(e) \notin DOMAIN sections[e.at]
       \/ e.field.kind = "int" /\ sections[e.at][FirstPresent(e)].val \notin DOMAIN IntOf

C19_UnsettableFieldFails ==
    /\ \A i \in DOMAIN Calls :
          ~Calls[i].field.settable =>
              /\ Calls[i].what = "error"
              /\ Calls[i].name = <<>>
              /\ i = Len(Calls)
              /\ loader.st = "failed"
    /\ loader.st = "done" => \A k \in 1..Len(loader.type) : loader.type[k].settable

C19_Witness ==
    /\ loader.st = "failed"
    /\ Calls # <<>>
    /\ ~Calls[Len(Calls)].field.settable
    /\ PresentRanks(Calls[Len(Calls)]) = {}
    /\ loader.obj[<<1>>] = 1

(* -------------------------------- C20 ---------------------------------- *)
\* C20: on the same text the line-at-a-time parser and the state-machine
\* parser return the same outcome (success or error) and, on success, leave
\* the same items: the same mapping from key to raw key and value.
C20_ParsersAgree ==
    (conf0.st = "made" /\ conf0.ln.st # "run" /\ conf0.sm.st # "run") =>
        /\ conf0.ln.st = conf0.sm.st
        /\ conf0.ln.st = "ok" => conf0.ln.items = conf0.sm.items

\* C21: a Parse call that follows another one on the same Conf, the file
\* unchanged, returns what the call before it returned: the same error if
\* that one failed, no error if it succeeded.
C21_ReparseRepeatsTheOutcome ==
    [][ (pc = "parsing" /\ pc' = "idle" /\ nparse >= 2) => perr' = perr ]_vars

(* -------------------------------- C22 ---------------------------------- *)
\* the integers the elements of the values of the files write
ElemInt == (<<"1">> :> 1) @@ (<<"2">> :> 2)

C23_ItemsOfTheCurrentSection ==
    ret.op = "Items" =>
        /\ Len(ret.val) = Cardinality(DOMAIN sections[cur])
        /\ \A i, j \in 1..Len(ret.val) : ret.val[i].key = ret.val[j].key => i = j
        /\ \A i \in 1..Len(ret.val) :
              /\ HasItem(sections, cur, ret.val[i].key)
              /\ ret.val[i] = sections[cur][ret.val[i].key]
        /\ \A k \in KeyArgs \cup DOMAIN sections[cur] :
              HasItem(sections, cur, k) => \E i \in 1..Len(ret.val) : ret.val[i].key = k

\* with the cursor on S, Items returns the one item of S and not the items
\* the global section holds, one of them under the same key
C23_Witness ==
    /\ cur = <<"S">>
    /\ ret.op = "Items"
    /\ Len(ret.val) = 1
    /\ ret.val[1] = Item(<<"a">>, <<"1", ",", "2">>)
    /\ <<"a">> \in DOMAIN sections[_GLOBAL]
    /\ sections[_GLOBAL][<<"a">>].val = <<"x">>

(* -------------------------------- C24 ---------------------------------- *)
\* C24: whatever calls have been made on a Conf and whether they failed or
\* not, the global section is registered and the cursor is on a registered
\* section.
C24_GlobalSectionAlwaysExists ==
    /\ _GLOBAL \in DOMAIN sections
    /\ cur \in DOMAIN sections

\* a second Parse has failed and so has Section("T"); the cursor is still on
\* S, where an earlier call put it
C24_Witness ==
    /\ pc = "idle"
    /\ nparse = 2
    /\ perr # NoErr
    /\ ret.op = "Section" /\ ret.arg = <<"T">> /\ ret.err # NoErr
    /\ cur = <<"S">>

(* -------------------------------- C25 ---------------------------------- *)
\* a key:value line whose key is a composite key and whose text ends in ']'
CompositeLine(t) == Bracketed(t) /\ HasColon(t) /\ CompositeKey(KeyOf(t))

\* C25: the parser takes a line for a section header only if it is bracketed
\* and is not a key:value line with a composite key; such a key:value line
\* with a value is stored as an item under its key and registers no section.
C25_LineClassification ==
    \A i \in DOMAIN log :
        LET t == log[i].line
        IN  /\ log[i].what = "section" => Header(t)
            /\ (CompositeLine(t) /\ ValOf(t) # <<>>) =>
                  /\ log[i].what = "kv"
                  /\ log[i].key = KeyOf(t)
                  /\ log[i].val = ValOf(t)

(* -------------------------------- C26 ---------------------------------- *)
\* The text as the state machine's grammar reads it: a key up to the next
\* ':', then a value up to the next newline or the end of the text, again and
\* again.  pairs are the key and value texts found, in order; rest is the
\* text after the last value, in which there is no ':'.
RECURSIVE Grammar(_, _)
Grammar(buf, pairs) ==
    LET cs    == {i \in 1..Len(buf) : buf[i] = ":"}
        c     == SetMin(cs)
        after == SubSeq(buf, c + 1, Len(buf))
        ns    == {i \in 1..Len(after) : after[i] = "\n"}
        key   == Trim(SubSeq(buf, 1, c - 1), _SPACE_CHARS)
    IN  IF cs = {} THEN [pairs |-> pairs, rest |-> buf]
        ELSE IF ns = {}
        THEN [pairs |-> Append(pairs, [key |-> key, val |-> Trim(after, _SPACE_CHARS)]),
              rest |-> <<>>]
        ELSE Grammar(SubSeq(after, SetMin(ns) + 1, Len(after)),
                     Append(pairs, [key |-> key,
                                    val |-> Trim(SubSeq(after, 1, SetMin(ns) - 1),
                                                 _SPACE_CHARS)]))

BlankText(t) == \A i \in 1..Len(t) : t[i] \in {" ", "\t", "\n"}

\* the text ends with key text that no ':' follows
PendingKey == ~BlankText(Grammar(input, <<>>).rest)

\* the text ends with a key and ':' that no value content follows
DanglingKey ==
    LET g == Grammar(input, <<>>)
    IN  BlankText(g.rest) /\ Len(g.pairs) > 0 /\ g.pairs[Len(g.pairs)].val = <<>>

\* the machine has returned: with no error exactly when the text ends
\* neither in a pending key nor in a dangling one, and a dangling key has
\* left no item
MachineResult ==
    conf0.sm.st # "run" =>
        /\ conf0.sm.curState \in {_PARSE_DONE, _PARSE_ERR}
        /\ (conf0.sm.st = "ok") = (conf0.sm.curState = _PARSE_DONE)
        /\ conf0.sm.st = "err" => conf0.sm.err # NoErr
        /\ (conf0.sm.st = "ok") = (~PendingKey /\ ~DanglingKey)
        /\ DanglingKey =>
              LET ps == Grammar(input, <<>>).pairs
                  k  == parseKey(ps[Len(ps)].key)
              IN  (\A i \in 1..(Len(ps) - 1) : parseKey(ps[i].key) # k)
                     => k \notin DOMAIN conf0.sm.items

\* a case of the machine can be run
MachineStep ==
    ParseStart \/ ParseFoundKey \/ ParseFoundVal \/ ParseFoundKV \/ ParseErr \/ ParseEnd

\* C26: the state-machine Parse always has a next case to run until it
\* returns, and it returns from DONE or from ERROR; it returns nil exactly
\* when the text ends neither with pending key text nor with a key and ':'
\* that no value content follows, and a non-nil error otherwise; a key left
\* dangling at the end of the text is not stored; an item is stored only in
\* FOUND_KV, which is entered only from FOUND_VAL, which is entered only from
\* FOUND_KEY, which is entered only from START.
C26_MachineEndsInDoneOrError ==
    /\ []MachineResult
    /\ [][ /\ conf0.sm.st = "run" => ENABLED MachineStep
           /\ conf0'.sm.items # conf0.sm.items => conf0.sm.curState = _PARSE_FOUND_KV
           /\ (conf0'.sm.curState = _PARSE_FOUND_KV /\ conf0.sm.curState # _PARSE_FOUND_KV)
                 => conf0.sm.curState = _PARSE_FOUND_VAL
           /\ (conf0'.sm.curState = _PARSE_FOUND_VAL /\ conf0.sm.curState # _PARSE_FOUND_VAL)
                 => conf0.sm.curState = _PARSE_FOUND_KEY
           /\ (conf0'.sm.curState = _PARSE_FOUND_KEY /\ conf0.sm.curState # _PARSE_FOUND_KEY)
                 => conf0.sm.curState = _PARSE_START ]_vars

(* -------------------------------- C27 ---------------------------------- *)
\* what the first m passes of the running Parse committed to a new Conf:
\* a header its section, a key:value line its item in the section it was
\* read in
Committed(m) ==
    LET F[i \in 0..m] ==
            IF i = 0 THEN (_GLOBAL :> newSection)
            ELSE IF log[i].what = "section" THEN (log[i].sec :> newSection) @@ F[i - 1]
            ELSE IF log[i].what = "kv"
            THEN [F[i - 1] EXCEPT ![log[i].into] =
                     (log[i].key :> Item(log[i].key, log[i].val)) @@ @]
            ELSE F[i - 1]
    IN  F[m]

\* C27: when the Parse of a new Conf has failed, it failed at the first line
\* that is in error, line n, and read nothing after it; the Conf holds the
\* sections and items lines 1..n-1 committed, all of them, and nothing else.
C27_FailedParseKeepsWhatWasCommitted ==
    (pc = "idle" /\ nparse = 1 /\ perr # NoErr) =>
        LET n == Len(log)
        IN  /\ n >= 1
            /\ log[n].what = "error"
            /\ \A i \in 1..(n - 1) : log[i].what # "error"
            /\ \A i \in 1..n : log[i].line = TextLine(i)
            /\ rd <= Len(JoinLines([j \in 1..n |-> Split(input, _NEWLINE)[j]])) + 1
            /\ sections = Committed(n - 1)

\* Parse has failed at the third line; the item of line 1 and the section of
\* line 2 are in the Conf
C27_Witness ==
    /\ pc = "idle"
    /\ nparse = 1
    /\ perr = Err("an empty value", <<>>)
    /\ Len(log) = 3
    /\ log[1].what = "kv" /\ log[2].what = "section"
    /\ DOMAIN sections = {_GLOBAL, <<"S">>}
    /\ DOMAIN sections[_GLOBAL] = {<<"a">>}
    /\ sections[<<"S">>] = newSection

(* -------------------------------- C28 ---------------------------------- *)
\* the '@' of a key after its second byte
MoreTags(k) == {i \in 3..Len(k) : k[i] = "@"}

\* a composite key as the rule has it: [ first, ] last, @ second, and either
\* no other @ or the next @ three bytes before the end, one separator byte
\* after it
WellFormedKey(k) ==
    /\ Len(k) >= 3
    /\ k[1] = "[" /\ k[Len(k)] = "]" /\ k[2] = "@"
    /\ MoreTags(k) = {} \/ SetMin(MoreTags(k)) = Len(k) - 2

\* an array key the parser stores under a name stripped of its markers
StrippedArrayKey(k) == Len(k) >= 2 /\ k[2] = "@" /\ parseKey(k) # k

\* C28: ToStringArray returns an array only for a rawKey that is well formed
\* by the rule, and it returns one for every array key that parseKey strips
\* to a name.
C28_CompositeKeyWellFormed ==
    out.op = "ToStringArray" =>
        /\ out.st = "ok" => WellFormedKey(item.rawKey)
        /\ StrippedArrayKey(item.rawKey) => out.st = "ok"

(* -------------------------------- C29 ---------------------------------- *)
\* a file in which nothing but a repeated key could be at fault: blank
\* lines, comments, headers of different sections, none of them the global
\* one, and key:value lines with a value.  (Bracketed key:value lines with a
\* composite key are left out: C25 is about them.)
RepeatsOnlyFile ==
    \A i \in TextLines :
        LET t == TextLine(i)
        IN  /\ ~CompositeLine(t)
            /\ \/ Blank(t)
               \/ Comment(t)
               \/ /\ Header(t)
                  /\ DeclaredName(t) # _GLOBAL
                  /\ \A j \in TextLines \ {i} :
                        Header(TextLine(j)) => DeclaredName(TextLine(j)) # DeclaredName(t)
               \/ KeyValue(t) /\ ValOf(t) # <<>>

\* the last line that gives key k a value in the section line i is in
LastInSection(i) ==
    SetMax({j \in TextLines : /\ KeyValue(TextLine(j))
                              /\ KeyOf(TextLine(j)) = KeyOf(TextLine(i))
                              /\ SectionAt(j) = SectionAt(i)})

\* C29: a key given a value on several lines of one section is no error:
\* Parse succeeds and the section holds one item for the key, with the value
\* of the last of those lines; the same key under another section is another
\* item with the value its own section gives it.
C29_LastDuplicateWins ==
    (ParsedOnce /\ RepeatsOnlyFile) =>
        /\ perr = NoErr
        /\ \A s \in DOMAIN sections : DOMAIN sections[s] = DeclaredUnder(s)
        /\ \A i \in TextLines :
              KeyValue(TextLine(i)) =>
                  sections[SectionAt(i)][KeyOf(TextLine(i))]
                     = Item(KeyOf(TextLine(i)), ValOf(TextLine(LastInSection(i))))

\* the key a has two lines in the global section, with the values b and
\* c:d, and a header follows: Parse has succeeded and the one item of the
\* global section has the second value
C29_Witness ==
    /\ ParsedOnce
    /\ perr = NoErr
    /\ Len(log) = 3
    /\ log[1].what = "kv" /\ log[1].key = <<"a">> /\ log[1].val = <<"b">>
    /\ log[2].what = "kv" /\ log[2].key = <<"a">> /\ log[2].val = <<"c", ":", "d">>
    /\ log[3].what = "section"
    /\ DOMAIN sections[_GLOBAL] = {<<"a">>}
    /\ sections[_GLOBAL][<<"a">>] = Item(<<"a">>, <<"c", ":", "d">>)

(* -------------------------------- C30 ---------------------------------- *)
\* the elements the config gives the slice field of call e: the parts of the
\* item's text between separators
ConfigElems(e) == Elements(sections[e.at][e.name].val, elementSep)

\* C30: a slice field that Load assigns holds the elements it held before,
\* in their order, and after them the integers of the config's array, in
\* theirs; nothing loaded later changes it; and a slice field whose array
\* getter failed holds what it held before.
C30_SliceFieldsAreAppendedTo ==
    \A i \in DOMAIN Calls :
        LET e   == Calls[i]
            old == Preset(e.field.kind)
        IN  e.field.kind = "[]int64" =>
               /\ e.what = "set" =>
                     LET els == ConfigElems(e)
                     IN  /\ \A j \in 1..Len(els) : els[j] \in DOMAIN IntOf
                         /\ e.val = old \o [j \in 1..Len(els) |-> IntOf[els[j]]]
                         /\ loader.obj[e.path] = e.val
               /\ e.what = "error" =>
                     /\ loader.st = "failed"
                     /\ loader.obj[e.path] = old

\* Load has returned nil and the field L, which held [9], holds [9, 1, 2]
C30_Witness ==
    /\ loader.st = "done"
    /\ Len(loader.type) = 3
    /\ loader.type[3].kind = "[]int64"
    /\ loader.obj[<<3>>] = <<9, 1, 2>>
    /\ <<"l">> \in DOMAIN sections[_GLOBAL]
    /\ sections[_GLOBAL][<<"l">>].val = <<"1", " ", "2">>

====
